---------------------------- MODULE Spec2Model ----------------------------
(***************************************************************************)
(* Model of the capacity-planning pipeline of mvp_app:                     *)
(*   simulate.py  simulate_year / assimilate_forecasts                     *)
(*   logic.py     ampel_status / format_recommendation / describe_cell     *)
(*   kpis.py      compute_kpis                                             *)
(*   app.py       build_heatmap                                            *)
(*                                                                         *)
(* Numbers.  The code computes in IEEE doubles.  The model computes in     *)
(* fixed point: a real x is the integer x * Milli, products and quotients  *)
(* are rounded down (Mul, Div).  Sums and differences are exact.           *)
(* Dates are records [year, month, day]; ToOrdinal is date.toordinal().    *)
(***************************************************************************)
EXTENDS Integers, Sequences, FiniteSets, TLC

VARIABLES
    config,        \* SimulationConfig handed to simulate_year
    clock,         \* index into Clocks: what date.today() returns now
    df,            \* dataset returned by the latest simulate_year run
    todays_date,   \* as-of date resolved by the latest run
    prev_df,       \* dataset returned by the run before the latest one
    prev_today,    \* as-of date resolved by the run before the latest one
    runs,          \* number of simulate_year runs so far
    call,          \* arguments of the pending call of a logic/dashboard function
    ret            \* value returned for `call`

vars == <<config, clock, df, todays_date, prev_df, prev_today, runs, call, ret>>

\* absent values: a float column holds <<x>> or NaN; an optional date is a
\* date or NoDate; a call or result not yet made is NoCall
NaN == <<>>
NoDate == [year |-> 0, month |-> 0, day |-> 0]
NoCall == [fn |-> "none"]

(***************************************************************************)
(* Fixed-point arithmetic                                                  *)
(***************************************************************************)
Milli == 10 * 10 * 10

Mul(a, b) == (a * b) \div Milli
Div(a, b) == IF b < 0 THEN ((-a) * Milli) \div (-b) ELSE (a * Milli) \div b
Abs(x) == IF x < 0 THEN -x ELSE x
Max(a, b) == IF a >= b THEN a ELSE b
Min(a, b) == IF a <= b THEN a ELSE b
\* math.ceil(num / den) for den > 0
CeilDiv(num, den) == -((-num) \div den)

RECURSIVE SumRange(_, _, _)
\* s[lo] + ... + s[hi], summed by halves
SumRange(s, lo, hi) ==
    IF lo > hi THEN 0
    ELSE IF lo = hi THEN s[lo]
    ELSE LET mid == (lo + hi) \div 2
         IN  SumRange(s, lo, mid) + SumRange(s, mid + 1, hi)

\* sum of a sequence of numbers
SumSeq(s) == SumRange(s, 1, Len(s))

(***************************************************************************)
(* Calendar (datetime.date / pandas.Timestamp)                             *)
(***************************************************************************)
IsLeap(y) == (y % 4 = 0) /\ ((y % 100 # 0) \/ (y % 400 = 0))

DaysInYear(y) == IF IsLeap(y) THEN 366 ELSE 365

DaysInMonth(y, m) ==
    IF m = 2 THEN (IF IsLeap(y) THEN 29 ELSE 28)
    ELSE IF m \in {4, 6, 9, 11} THEN 30 ELSE 31

\* days of the year before the first day of month m
DaysBeforeMonth(y, m) ==
    <<0, 31, 59, 90, 120, 151, 181, 212, 243, 273, 304, 334>>[m]
    + (IF m > 2 /\ IsLeap(y) THEN 1 ELSE 0)

MkDate(y, m, d) == [year |-> y, month |-> m, day |-> d]

\* date.timetuple().tm_yday
Yday(dt) == DaysBeforeMonth(dt.year, dt.month) + dt.day

\* date.toordinal(): 0001-01-01 is day 1
ToOrdinal(dt) ==
    LET y == dt.year - 1
    IN  365 * y + (y \div 4) - (y \div 100) + (y \div 400) + Yday(dt)

\* the date with the given day-of-year in year y
FromYday(y, n) ==
    LET m == CHOOSE k \in 1..12 :
                 /\ DaysBeforeMonth(y, k) < n
                 /\ n <= DaysBeforeMonth(y, k) + DaysInMonth(y, k)
    IN  MkDate(y, m, n - DaysBeforeMonth(y, m))

\* date.weekday(): Monday = 0 ... Sunday = 6
Weekday(dt) == (ToOrdinal(dt) + 6) % 7

\* ordinal of the Monday that starts ISO week 1 of year y
IsoWeek1Monday(y) ==
    LET firstday == ToOrdinal(MkDate(y, 1, 1))
        firstweekday == (firstday + 6) % 7
        week1monday == firstday - firstweekday
    IN  IF firstweekday > 3 THEN week1monday + 7 ELSE week1monday

\* date.isocalendar().week
IsoWeek(dt) ==
    LET today == ToOrdinal(dt)
        week == (today - IsoWeek1Monday(dt.year)) \div 7
    IN  IF week < 0
        THEN ((today - IsoWeek1Monday(dt.year - 1)) \div 7) + 1
        ELSE IF week >= 52 /\ today >= IsoWeek1Monday(dt.year + 1)
             THEN 1
             ELSE week + 1

DateLeq(a, b) == ToOrdinal(a) <= ToOrdinal(b)

\* a range of 365 days whatever the year
date_range_for_year_365(year) ==
    [k \in 1..365 |-> FromYday(year, k)]

\* _date_range_for_year: every day from Jan 1 to Dec 31, ascending
date_range_for_year(year) ==
    LET start == ToOrdinal(MkDate(year, 1, 1))
        end   == ToOrdinal(MkDate(year, 12, 31))
    IN  [k \in 1..(end - start + 1) |-> FromYday(year, k)]

(***************************************************************************)
(* Strings are sequences of one-character strings, so that str.lower and   *)
(* str.startswith can be computed.                                         *)
(***************************************************************************)
UpperChars == <<"A","B","C","D","E","F","G","H","I","J","K","L","M",
                "N","O","P","Q","R","S","T","U","V","W","X","Y","Z">>
LowerChars == <<"a","b","c","d","e","f","g","h","i","j","k","l","m",
                "n","o","p","q","r","s","t","u","v","w","x","y","z">>

LowerChar(c) ==
    IF \E i \in 1..26 : UpperChars[i] = c
    THEN LowerChars[CHOOSE i \in 1..26 : UpperChars[i] = c]
    ELSE c

\* str.lower
Lower(s) == [i \in 1..Len(s) |-> LowerChar(s[i])]

\* str.startswith for a one-character prefix
StartsWith(s, c) == Len(s) >= 1 /\ s[1] = c

(***************************************************************************)
(* simulate.py: constants                                                  *)
(***************************************************************************)
RESOURCES == <<"Betten", "OP", "Personal", "Sprechstunden", "Notfall">>

RESOURCE_BASELINES ==
    [Betten |-> 120000, OP |-> 75000, Personal |-> 90000,
     Sprechstunden |-> 60000, Notfall |-> 55000]

RESOURCE_EXTERNAL_WEIGHTS ==
    [Betten        |-> [flu_index |-> 900, weather_risk |-> 500, event_impact |-> 300],
     OP            |-> [flu_index |-> 400, weather_risk |-> 200, event_impact |-> 500],
     Personal      |-> [flu_index |-> 300, weather_risk |-> 200, event_impact |-> 400],
     Sprechstunden |-> [flu_index |-> 200, weather_risk |-> 200, event_impact |-> 600],
     Notfall       |-> [flu_index |-> 700, weather_risk |-> 800, event_impact |-> 400]]

RESOURCE_INTERNAL_WEIGHTS ==
    [Betten        |-> [verweildauer |-> 700, op_zeiten |-> 200, nurse_ratio |-> 400,
                        abwesenheiten |-> 600, cluster |-> 100],
     OP            |-> [verweildauer |-> 100, op_zeiten |-> 800, nurse_ratio |-> 300,
                        abwesenheiten |-> 400, cluster |-> 200],
     Personal      |-> [verweildauer |-> 200, op_zeiten |-> 200, nurse_ratio |-> 900,
                        abwesenheiten |-> 700, cluster |-> 300],
     Sprechstunden |-> [verweildauer |-> 300, op_zeiten |-> 300, nurse_ratio |-> 400,
                        abwesenheiten |-> 500, cluster |-> 400],
     Notfall       |-> [verweildauer |-> 400, op_zeiten |-> 200, nurse_ratio |-> 500,
                        abwesenheiten |-> 500, cluster |-> 200]]

BASE_NURSE_RATIO == 5000
BASE_ABSENCES == 50
BASE_CLUSTER_COUNT == 4

(***************************************************************************)
(* The seeded generator.  numpy's PCG64 stream is a fixed function of the  *)
(* seed and of the position in the stream; Draw is such a function with a  *)
(* small range.  Position 0 and 1 feed rng.choice, 2..7 the six            *)
(* rng.uniform calls, FirstNoiseDraw onwards the rng.normal calls, one per *)
(* (resource, day) in resource-major, date-ascending order.                *)
(***************************************************************************)
RngRange == 4001
FirstNoiseDraw == 8

Draw(seed, k) == ((seed + 31 * k) * (k + 17) + seed * seed) % RngRange

\* rng.choice(n, size=6, replace=False): six distinct 0-based positions
rng_choice(seed, n) ==
    LET start  == Draw(seed, 0) % n
        stride == 1 + (Draw(seed, 1) % 60)
    IN  [j \in 1..6 |-> (start + (j - 1) * stride) % n]

\* rng.uniform(0.2, 0.5), j-th call
rng_uniform(seed, j) == 200 + (Draw(seed, 1 + j) % 301)

\* rng.normal(0, scale), k-th call (k from 0): scale times a value in [-2, 2]
rng_normal(seed, k, scale) == Mul(scale, Draw(seed, FirstNoiseDraw + k) - 2000)

(***************************************************************************)
(* Smooth profiles.  sin, cos and exp are replaced by rational             *)
(* approximations with the same range, zeros and symmetry.                 *)
(***************************************************************************)
RECURSIVE SinDeg(_)
\* sin of an angle in whole degrees (Bhaskara's approximation)
SinDeg(deg) ==
    LET d == deg % 360
    IN  IF d <= 180
        THEN (4 * Milli * d * (180 - d)) \div (40500 - d * (180 - d))
        ELSE -SinDeg(d - 180)

CosDeg(deg) == SinDeg(deg + 90)

\* exp(-x) for x >= 0
ExpNeg(x) ==
    IF x > 20 * Milli THEN 0
    ELSE (Milli * Milli) \div (Milli + x + (Mul(x, x) \div 2))

Holidays == {<<1, 1>>, <<12, 24>>, <<12, 31>>, <<4, 1>>, <<8, 1>>}

\* the deterministic part of event_impact for one date (the holiday loop)
holiday_impact(dt) ==
    400 * Cardinality({h \in Holidays : dt.month = h[1] /\ Abs(dt.day - h[2]) <= 2})

\* the six random impulses, each added to positions idx and idx + 1
impulse_impact(seed, n, i0) ==
    LET impulse_days == rng_choice(seed, n)
    IN  SumSeq([j \in 1..6 |->
                  IF impulse_days[j] <= i0 /\ i0 < impulse_days[j] + 2
                  THEN rng_uniform(seed, j) ELSE 0])

\* _generate_external_indices; arrays are 1-based sequences
generate_external_indices(dates, saisonalitaet_staerke, flu_factor, weather_factor, seed) ==
    LET n == Len(dates)
        days_in_year == IF IsLeap(dates[1].year) THEN 366 ELSE 365
        day_of_year == [i \in 1..n |-> Yday(dates[i])]
        seasonality_base == [i \in 1..n |-> SinDeg((360 * day_of_year[i]) \div days_in_year)]
        z1(i) == ((day_of_year[i] - 15) * Milli) \div 18
        z2(i) == ((day_of_year[i] - 330) * Milli) \div 20
        flu_peak_winter == [i \in 1..n |-> ExpNeg(Mul(z1(i), z1(i)) \div 2)]
        flu_peak_autumn == [i \in 1..n |-> ExpNeg(Mul(z2(i), z2(i)) \div 2)]
        winter_profile == [i \in 1..n |->
            Mul(500, Milli + CosDeg((360 * (day_of_year[i] - 20)) \div days_in_year))]
    IN  [seasonality  |-> [i \in 1..n |-> Mul(saisonalitaet_staerke, seasonality_base[i])],
         flu_index    |-> [i \in 1..n |->
                              Mul(flu_factor, Mul(700, flu_peak_winter[i])
                                              + Mul(500, flu_peak_autumn[i]))],
         weather_risk |-> [i \in 1..n |->
                              Mul(weather_factor, Mul(600, winter_profile[i])
                                                  + Mul(100, seasonality_base[i]))],
         event_impact |-> [i \in 1..n |->
                              holiday_impact(dates[i]) + impulse_impact(seed, n, i - 1)]]

\* _year_fraction
year_fraction(idx, total) == (idx * Milli) \div Max(1, total - 1)

(***************************************************************************)
(* simulate.py: SimulationConfig                                           *)
(***************************************************************************)
\* SimulationConfig.resolve_today; current is date.today()
resolve_today(cfg, current) ==
    IF cfg.today # NoDate THEN cfg.today
    ELSE IF current.year = cfg.year THEN current
    ELSE MkDate(cfg.year, 12, 31)

(***************************************************************************)
(* simulate.py: simulate_year, one row                                     *)
(***************************************************************************)
DriverKeys == <<"flu_index", "weather_risk", "event_impact", "verweildauer",
                "op_zeiten", "nurse_ratio", "abwesenheiten", "cluster", "rest">>

\* sum(drivers.values()) over the eight named factors
driver_sum_of(d) ==
    d.flu_index + d.weather_risk + d.event_impact + d.verweildauer
    + d.op_zeiten + d.nurse_ratio + d.abwesenheiten + d.cluster

\* the residual left at zero
with_rest_zero(d, gap_total) ==
    [k \in {"flu_index", "weather_risk", "event_impact", "verweildauer",
            "op_zeiten", "nurse_ratio", "abwesenheiten", "cluster", "rest"} |->
        IF k = "rest" THEN 0 ELSE d[k]]

\* drivers["rest"] = gap_total - driver_sum
with_rest(d, gap_total) ==
    [k \in {"flu_index", "weather_risk", "event_impact", "verweildauer",
            "op_zeiten", "nurse_ratio", "abwesenheiten", "cluster", "rest"} |->
        IF k = "rest" THEN gap_total - driver_sum_of(d) ELSE d[k]]

\* the body of the double loop of simulate_year for resource number r
\* (1-based in RESOURCES) and 0-based day position idx
simulate_row(cfg, dates, external, r, idx) ==
    LET resource == RESOURCES[r]
        total_days == Len(dates)
        current_date == dates[idx + 1]
        base == RESOURCE_BASELINES[resource]
        ext_weights == RESOURCE_EXTERNAL_WEIGHTS[resource]
        int_weights == RESOURCE_INTERNAL_WEIGHTS[resource]
        year_progress == year_fraction(idx, total_days)
        weekday == Weekday(current_date)
        weekend_factor == IF weekday >= 5 THEN 50 ELSE -30
        trend_factor == Mul(50, year_progress - 500)
        seasonality == external.seasonality[idx + 1]
        flu_idx == external.flu_index[idx + 1]
        weather_risk == external.weather_risk[idx + 1]
        event_impact == external.event_impact[idx + 1]
        plan_base == Mul(base, Milli + cfg.budget_growth)
        plan_modifiers == Milli + Mul(250, seasonality) + weekend_factor
                          + Mul(trend_factor, 300)
        plan_value == Mul(plan_base, plan_modifiers)
        verweildauer_pct == Mul(Mul(int_weights.verweildauer, cfg.verweildauer_delta), 20)
        op_zeiten_pct == Mul(Mul(int_weights.op_zeiten, Div(cfg.op_zeiten_delta, 60 * Milli)), 50)
        nurse_ratio_pct ==
            Mul(Mul(int_weights.nurse_ratio,
                    Div(BASE_NURSE_RATIO - cfg.nurse_ratio, BASE_NURSE_RATIO)), 600)
        abwesenheiten_pct ==
            Mul(Mul(int_weights.abwesenheiten,
                    Div(cfg.abwesenheiten - BASE_ABSENCES, Max(BASE_ABSENCES, 1))), 400)
        cluster_pct ==
            Mul(Mul(int_weights.cluster,
                    ((cfg.cluster_anzahl - BASE_CLUSTER_COUNT) * Milli)
                        \div Max(BASE_CLUSTER_COUNT, 1)), 50)
        internal_pct == verweildauer_pct + op_zeiten_pct + nurse_ratio_pct
                        + abwesenheiten_pct + cluster_pct
        external_pct == Mul(Mul(ext_weights.flu_index, flu_idx), 400)
                        + Mul(Mul(ext_weights.weather_risk, weather_risk), 300)
                        + Mul(Mul(ext_weights.event_impact, event_impact), 200)
        forecast_raw == Mul(plan_value, Milli + internal_pct + external_pct)
        capacity_buffer == 900 + Mul(100, Milli - Div(cfg.abwesenheiten, 120))
        capacity == Mul(Mul(base, capacity_buffer),
                        Milli + Mul(150, seasonality) - Mul(500, weekend_factor))
        noise_scale == Mul(base, 80)
        actuals == Max(0, forecast_raw
                          + rng_normal(cfg.seed, (r - 1) * total_days + idx, noise_scale))
        drivers ==
            [flu_index     |-> Mul(Mul(Mul(plan_value, ext_weights.flu_index), flu_idx), 400),
             weather_risk  |-> Mul(Mul(Mul(plan_value, ext_weights.weather_risk), weather_risk), 300),
             event_impact  |-> Mul(Mul(Mul(plan_value, ext_weights.event_impact), event_impact), 200),
             verweildauer  |-> Mul(plan_value, verweildauer_pct),
             op_zeiten     |-> Mul(plan_value, op_zeiten_pct),
             nurse_ratio   |-> Mul(plan_value, nurse_ratio_pct),
             abwesenheiten |-> Mul(plan_value, abwesenheiten_pct),
             cluster       |-> Mul(plan_value, cluster_pct)]
        gap_total == forecast_raw - plan_value
    IN  [date |-> current_date,
         resource |-> resource,
         plan |-> plan_value,
         forecast_raw |-> forecast_raw,
         capacity |-> capacity,
         actuals |-> actuals,
         weekday |-> weekday,
         week |-> IsoWeek(current_date),
         flu_index |-> flu_idx,
         weather_risk |-> weather_risk,
         event_impact |-> event_impact,
         seasonality |-> seasonality,
         drivers |-> with_rest(drivers, gap_total)]

\* the driver columns _apply_driver_columns adds to one row: d.get(key, 0.0)
apply_driver_columns(row) ==
    [key \in {DriverKeys[i] : i \in 1..Len(DriverKeys)} |->
        IF key \in DOMAIN row.drivers THEN row.drivers[key] ELSE 0]

(***************************************************************************)
(* simulate.py: assimilate_forecasts                                       *)
(***************************************************************************)
\* alpha: float = 0.3
Alpha == 300

\* should_assimilate without the as-of test
should_assimilate_any_date(timestamp, today, rhythm) ==
    IF StartsWith(rhythm, "w") THEN Weekday(timestamp) = 6
    ELSE IF StartsWith(rhythm, "m") THEN timestamp.day = 1
    ELSE FALSE

\* should_assimilate with every other rhythm firing daily
should_assimilate_else_daily(timestamp, today, rhythm) ==
    IF ~DateLeq(timestamp, today) THEN FALSE
    ELSE IF StartsWith(rhythm, "w") THEN Weekday(timestamp) = 6
    ELSE IF StartsWith(rhythm, "m") THEN timestamp.day = 1
    ELSE TRUE

\* should_assimilate (closure over todays_date and rhythm)
should_assimilate(timestamp, today, rhythm) ==
    IF ~DateLeq(timestamp, today) THEN FALSE
    ELSE IF StartsWith(rhythm, "w") THEN Weekday(timestamp) = 6
    ELSE IF StartsWith(rhythm, "m") THEN timestamp.day = 1
    ELSE FALSE

\* the iteration with the difference taken against the forecast already
\* corrected
assimilate_step_corrected_baseline(row, correction, today, rhythm, alpha) ==
    LET baseline_forecast == row.forecast_raw
        fires == should_assimilate(row.date, today, rhythm)
        difference == row.actuals - (baseline_forecast + correction)
        new_correction ==
            IF fires THEN Mul(Milli - alpha, correction) + Mul(alpha, difference)
            ELSE correction
    IN  [correction |-> new_correction,
         forecast |-> baseline_forecast + new_correction,
         fired |-> fires]

\* the iteration with the whole difference added to the damped correction
assimilate_step_full_difference(row, correction, today, rhythm, alpha) ==
    LET baseline_forecast == row.forecast_raw
        fires == should_assimilate(row.date, today, rhythm)
        difference == row.actuals - baseline_forecast
        new_correction ==
            IF fires THEN Mul(Milli - alpha, correction) + difference
            ELSE correction
    IN  [correction |-> new_correction,
         forecast |-> baseline_forecast + new_correction,
         fired |-> fires]

\* one iteration of the inner loop: the new correction and the appended
\* forecast; `fired` records whether the update branch was taken
assimilate_step(row, correction, today, rhythm, alpha) ==
    LET baseline_forecast == row.forecast_raw
        fires == should_assimilate(row.date, today, rhythm)
        difference == row.actuals - baseline_forecast
        new_correction ==
            IF fires THEN Mul(Milli - alpha, correction) + Mul(alpha, difference)
            ELSE correction
    IN  [correction |-> new_correction,
         forecast |-> baseline_forecast + new_correction,
         fired |-> fires]

RECURSIVE assimilate_group(_, _, _, _, _, _, _)
\* the inner loop over rows lo..hi of one resource's group, entered with
\* `correction`: the list of steps.  The loop is unrolled by halves (the
\* second half starts from the correction the first half ends with), which
\* keeps the evaluation depth logarithmic in the number of rows.
assimilate_group(group, lo, hi, correction, today, rhythm, alpha) ==
    IF lo > hi THEN <<>>
    ELSE IF lo = hi
    THEN <<assimilate_step(group[lo], correction, today, rhythm, alpha)>>
    ELSE LET mid == (lo + hi) \div 2
             first == assimilate_group(group, lo, mid, correction, today, rhythm, alpha)
         IN  first \o assimilate_group(group, mid + 1, hi, first[Len(first)].correction,
                                       today, rhythm, alpha)

\* the order in which sort_values(["resource", "date"]) puts the resource
\* names (lexicographic string order)
ResourceSortOrder == <<"Betten", "Notfall", "OP", "Personal", "Sprechstunden">>

\* df.sort_values(["resource", "date"])
RECURSIVE sort_values(_, _)
sort_values(rows, g) ==
    IF g > Len(ResourceSortOrder) THEN <<>>
    ELSE SortSeq(SelectSeq(rows, LAMBDA row : row.resource = ResourceSortOrder[g]),
                 LAMBDA a, b : ToOrdinal(a.date) < ToOrdinal(b.date))
         \o sort_values(rows, g + 1)

\* the outer loop: for resource, group in df.groupby("resource", sort=False),
\* correction restarting at 0 for every group; returns the list `adjusted`
RECURSIVE adjusted_from(_, _, _, _, _)
adjusted_from(sorted, g, today, rhythm, alpha) ==
    IF g > Len(ResourceSortOrder) THEN <<>>
    ELSE LET group == SelectSeq(sorted, LAMBDA row : row.resource = ResourceSortOrder[g])
         IN  assimilate_group(group, 1, Len(group), 0, today, rhythm, alpha)
             \o adjusted_from(sorted, g + 1, today, rhythm, alpha)

\* the list `adjusted` assigned to the table in its input order
assimilate_forecasts_input_order(rows, cfg, today, alpha) ==
    LET sorted == sort_values(rows, 1)
        rhythm == Lower(cfg.datenrhythmus)
        adjusted == adjusted_from(sorted, 1, today, rhythm, alpha)
    IN  [i \in 1..Len(rows) |->
            rows[i] @@ [forecast |-> adjusted[i].forecast,
                        fired |-> adjusted[i].fired,
                        correction |-> adjusted[i].correction]]

\* assimilate_forecasts: the sorted copy with the column "forecast"; the
\* columns "fired" and "correction" record the walk for the properties
assimilate_forecasts(rows, cfg, today, alpha) ==
    LET sorted == sort_values(rows, 1)
        rhythm == Lower(cfg.datenrhythmus)
        adjusted == adjusted_from(sorted, 1, today, rhythm, alpha)
    IN  [i \in 1..Len(sorted) |->
            sorted[i] @@ [forecast |-> adjusted[i].forecast,
                          fired |-> adjusted[i].fired,
                          correction |-> adjusted[i].correction]]

\* norm_gap = gap / capacity.where(capacity > 0, 1)
norm_gap_of(gap, capacity) ==
    Div(gap, IF capacity > 0 THEN capacity ELSE Milli)

\* the three columns simulate_year adds after assimilation
post_process(row, today) ==
    LET gap == row.forecast - row.capacity
    IN  row @@ [gap |-> gap,
                norm_gap |-> norm_gap_of(gap, row.capacity),
                actuals_to_date |-> IF DateLeq(row.date, today)
                                    THEN <<row.actuals>> ELSE NaN]

\* the body of simulate_year once the as-of date `today` is resolved
simulate_rows(cfg, today) ==
    LET dates == date_range_for_year(cfg.year)
        external == generate_external_indices(dates, cfg.saisonalitaet_staerke,
                        cfg.flu_index_staerke, cfg.weather_risk_staerke, cfg.seed)
        total_days == Len(dates)
        data_rows == [k \in 1..(Len(RESOURCES) * total_days) |->
                        LET row == simulate_row(cfg, dates, external,
                                                ((k - 1) \div total_days) + 1,
                                                (k - 1) % total_days)
                        IN  row @@ [driver |-> apply_driver_columns(row)]]
        assimilated == assimilate_forecasts(data_rows, cfg, today, Alpha)
    IN  [i \in 1..Len(assimilated) |-> post_process(assimilated[i], today)]

\* a run that takes the system date as the as-of date, ignoring config.today
simulate_year_clock(cfg, current) == simulate_rows(cfg, current)

\* simulate_year(config), run when date.today() is `current`
simulate_year(cfg, current) == simulate_rows(cfg, resolve_today(cfg, current))

(***************************************************************************)
(* The simulation session: simulate_year is run, the clock moves, it is    *)
(* run again with the same configuration.                                  *)
(***************************************************************************)
MaxRuns == 2

\* the dates date.today() returns, in the order the clock passes them
Clocks == <<MkDate(2023, 6, 10), MkDate(2023, 6, 12), MkDate(2024, 3, 1)>>

Str_woechentlich == <<"w", "ö", "c", "h", "e", "n", "t", "l", "i", "c", "h">>
Str_monatlich == <<"m", "o", "n", "a", "t", "l", "i", "c", "h">>
Str_Weekly == <<"W", "e", "e", "k", "l", "y">>
Str_manuell == <<"m", "a", "n", "u", "e", "l", "l">>
Str_taeglich == <<"t", "ä", "g", "l", "i", "c", "h">>

Str_empty == <<>>

DefaultConfig ==
    [year |-> 2023, seed |-> 42, budget_growth |-> 30, verweildauer_delta |-> 200,
     op_zeiten_delta |-> 5000, nurse_ratio |-> BASE_NURSE_RATIO, abwesenheiten |-> 60,
     cluster_anzahl |-> BASE_CLUSTER_COUNT, saisonalitaet_staerke |-> 1000,
     flu_index_staerke |-> 800, weather_risk_staerke |-> 600,
     datenrhythmus |-> Str_woechentlich, today |-> NoDate]

\* the configurations simulate_year is run with
Configs ==
    {DefaultConfig,
     [DefaultConfig EXCEPT !.datenrhythmus = Str_monatlich],
     [DefaultConfig EXCEPT !.year = 2024, !.seed = 7],
     [DefaultConfig EXCEPT !.year = 2024, !.datenrhythmus = Str_monatlich,
                           !.nurse_ratio = 4000, !.cluster_anzahl = 6],
     [DefaultConfig EXCEPT !.year = 2024, !.datenrhythmus = Str_monatlich,
                           !.today = MkDate(2024, 2, 29)],
     [DefaultConfig EXCEPT !.today = MkDate(2022, 12, 31)],
     [DefaultConfig EXCEPT !.today = MkDate(2023, 1, 31), !.abwesenheiten = 1200],
     [DefaultConfig EXCEPT !.datenrhythmus = Str_Weekly, !.today = MkDate(2023, 3, 15)],
     [DefaultConfig EXCEPT !.datenrhythmus = Str_manuell],
     [DefaultConfig EXCEPT !.datenrhythmus = Str_taeglich],
     [DefaultConfig EXCEPT !.datenrhythmus = Str_empty, !.today = MkDate(2023, 12, 31)]}

Init ==
    /\ config \in Configs
    /\ clock = 1
    /\ df = <<>>
    /\ todays_date = NoDate
    /\ prev_df = <<>>
    /\ prev_today = NoDate
    /\ runs = 0
    /\ call = NoCall
    /\ ret = NoCall

\* one run of simulate_year(config)
SimulateYear ==
    /\ runs < MaxRuns
    /\ df' = simulate_year(config, Clocks[clock])
    /\ todays_date' = resolve_today(config, Clocks[clock])
    /\ prev_df' = df
    /\ prev_today' = todays_date
    /\ runs' = runs + 1
    /\ UNCHANGED <<config, clock, call, ret>>

\* the system date advances
Tick ==
    /\ clock < Len(Clocks)
    /\ clock' = clock + 1
    /\ UNCHANGED <<config, df, todays_date, prev_df, prev_today, runs, call, ret>>

Next == SimulateYear \/ Tick

Spec == Init /\ [][Next]_vars

(***************************************************************************)
(* Properties of simulate_year and assimilate_forecasts                    *)
(***************************************************************************)
Rows == 1..Len(df)

Weekly == config.datenrhythmus = Str_woechentlich
Monthly == config.datenrhythmus = Str_monatlich

\* Sundays are the dates whose ordinal is a multiple of 7 (0001-01-01 was a Monday)
IsSunday(dt) == ToOrdinal(dt) % 7 = 0

\* C1: in every resource's walk, taken in ascending date order, the
\* correction is updated on a row iff the row's date is on or before the
\* as-of date and is a Sunday (weekly rhythm) or the 1st of a month (monthly
\* rhythm); nothing is updated on a date after the as-of date.
C1_FiresOnBoundary ==
    \A i \in Rows :
        /\ (i > 1 /\ df[i - 1].resource = df[i].resource)
               => ToOrdinal(df[i - 1].date) < ToOrdinal(df[i].date)
        /\ Weekly => (df[i].fired <=>
                        (ToOrdinal(df[i].date) <= ToOrdinal(todays_date)
                         /\ IsSunday(df[i].date)))
        /\ Monthly => (df[i].fired <=>
                        (ToOrdinal(df[i].date) <= ToOrdinal(todays_date)
                         /\ df[i].date.day = 1))
        /\ ToOrdinal(df[i].date) > ToOrdinal(todays_date) => ~df[i].fired

\* a weekly run whose as-of date lies inside the year: an update on a Sunday
\* before it, and a Sunday after it without update
C1_Witness ==
    /\ Weekly
    /\ \E i, j \in Rows :
          /\ df[i].fired /\ df[i].correction # 0
          /\ IsSunday(df[j].date) /\ ~df[j].fired
          /\ df[i].resource = df[j].resource

\* C4 as stated: gap = forecast - capacity, norm_gap = gap / capacity for
\* non-zero capacity and norm_gap = 0 for zero capacity
C4_NormGap ==
    \A i \in Rows :
        /\ df[i].gap = df[i].forecast - df[i].capacity
        /\ df[i].capacity # 0 => df[i].norm_gap = Div(df[i].gap, df[i].capacity)
        /\ df[i].capacity = 0 => df[i].norm_gap = 0

C7_DriversSum ==
    \A i \in Rows :
        SumSeq([k \in 1..Len(DriverKeys) |-> df[i].driver[DriverKeys[k]]])
            = df[i].forecast_raw - df[i].plan

\* a row whose residual column is not zero
C7_Witness ==
    \E i \in Rows : df[i].driver["rest"] # 0 /\ df[i].driver["flu_index"] # 0

Recognized == Weekly \/ Monthly

\* C8 as stated: a rhythm other than the two recognized values never fires
C8_Original ==
    ~Recognized => \A i \in Rows : ~df[i].fired /\ df[i].forecast = df[i].forecast_raw

\* C8 amended: when the lower-cased rhythm starts with neither "w" nor "m",
\* no assimilation event fires and forecast = forecast_raw on every row
C8_NoPrefixNoFiring ==
    (~StartsWith(Lower(config.datenrhythmus), "w")
     /\ ~StartsWith(Lower(config.datenrhythmus), "m"))
        => \A i \in Rows : ~df[i].fired /\ df[i].forecast = df[i].forecast_raw

\* a run with such a rhythm, with boundary rows before the as-of date
C8_Witness ==
    /\ config.datenrhythmus = Str_taeglich
    /\ \E i \in Rows : IsSunday(df[i].date) /\ df[i].actuals # df[i].forecast_raw
                       /\ ToOrdinal(df[i].date) <= ToOrdinal(todays_date)

(***************************************************************************)
(* logic.py.  gap, capacity, nurse_ratio and the thresholds are fixed-point *)
(* numbers; a normalised gap is the exact quotient [num, den] of two of    *)
(* them, den > 0, so that the threshold comparisons and math.ceil are      *)
(* computed without rounding.                                              *)
(***************************************************************************)
AMPel_COLORS ==
    ("GRÜN" :> "#2e7d32") @@ ("GELB" :> "#f9a825")
    @@ ("ROT" :> "#c62828") @@ ("BLAU" :> "#1565c0")

\* the float num / den, den # 0
Quot(num, den) ==
    IF den < 0 THEN [num |-> -num, den |-> -den] ELSE [num |-> num, den |-> den]

\* the float 0.0
Zero == [num |-> 0, den |-> Milli]

\* q >= t and q <= t for a quotient q and a fixed-point number t
QGeq(q, t) == q.num * Milli >= t * q.den
QLeq(q, t) == q.num * Milli <= t * q.den

\* abs(a) >= abs(b) for two quotients
QAbsGeq(a, b) == Abs(a.num) * b.den >= Abs(b.num) * a.den

\* ampel_status testing the green threshold before the yellow one
ampel_status_green_first(norm_gap, thresholds) ==
    IF QGeq(norm_gap, thresholds.gruen) THEN <<"GELB", AMPel_COLORS["GELB"]>>
    ELSE IF QGeq(norm_gap, thresholds.gelb) THEN <<"ROT", AMPel_COLORS["ROT"]>>
    ELSE IF QLeq(norm_gap, -thresholds.gruen) THEN <<"BLAU", AMPel_COLORS["BLAU"]>>
    ELSE IF QLeq(norm_gap, -thresholds.gelb) THEN <<"ROT", AMPel_COLORS["ROT"]>>
    ELSE <<"GRÜN", AMPel_COLORS["GRÜN"]>>

\* ampel_status testing the negative green threshold before the negative
\* yellow one
ampel_status_blue_first(norm_gap, thresholds) ==
    IF QGeq(norm_gap, thresholds.gelb) THEN <<"ROT", AMPel_COLORS["ROT"]>>
    ELSE IF QGeq(norm_gap, thresholds.gruen) THEN <<"GELB", AMPel_COLORS["GELB"]>>
    ELSE IF QLeq(norm_gap, -thresholds.gruen) THEN <<"BLAU", AMPel_COLORS["BLAU"]>>
    ELSE IF QLeq(norm_gap, -thresholds.gelb) THEN <<"ROT", AMPel_COLORS["ROT"]>>
    ELSE <<"GRÜN", AMPel_COLORS["GRÜN"]>>

\* ampel_status: (label, color)
ampel_status(norm_gap, thresholds) ==
    IF QGeq(norm_gap, thresholds.gelb) THEN <<"ROT", AMPel_COLORS["ROT"]>>
    ELSE IF QGeq(norm_gap, thresholds.gruen) THEN <<"GELB", AMPel_COLORS["GELB"]>>
    ELSE IF QLeq(norm_gap, -thresholds.gelb) THEN <<"ROT", AMPel_COLORS["ROT"]>>
    ELSE IF QLeq(norm_gap, -thresholds.gruen) THEN <<"BLAU", AMPel_COLORS["BLAU"]>>
    ELSE <<"GRÜN", AMPel_COLORS["GRÜN"]>>

\* the factor of format_recommendation: 0.35 for GELB, else 1.0
recommendation_factor(status) == IF status = "GELB" THEN 350 ELSE Milli

\* the release quantity rounded down
release_quantity_floor(gap, factor) == (Abs(gap) * factor) \div (2 * Milli * Milli)

\* math.ceil(abs(gap) * factor / 2)
release_quantity(gap, factor) == CeilDiv(Abs(gap) * factor, 2 * Milli * Milli)

\* the shift count rounded down
staff_reassign_quantity_floor(gap, factor, nurse_ratio) ==
    IF nurse_ratio >= 1
    THEN (Max(0, gap) * factor) \div (Milli * nurse_ratio)
    ELSE Max(0, gap) * factor

\* math.ceil(max(0.0, gap) * factor / max(nurse_ratio, 1e-6))
staff_reassign_quantity(gap, factor, nurse_ratio) ==
    IF nurse_ratio >= 1
    THEN CeilDiv(Max(0, gap) * factor, Milli * nurse_ratio)
    ELSE Max(0, gap) * factor

\* format_recommendation.  The returned text is a record: its wording (msg)
\* and the numbers formatted into it.
format_recommendation(resource, gap, capacity, nurse_ratio, thresholds) ==
    IF capacity <= 0 THEN [msg |-> "Kapazität unbekannt"]
    ELSE
    LET norm_gap == Quot(gap, capacity)
        status == ampel_status(norm_gap, thresholds)[1]
        shortage == gap > 0
        factor == recommendation_factor(status)
        op_shift == CeilDiv(Max(0, gap) * factor, 10 * Max(capacity, Milli))
        open_beds == CeilDiv(Max(0, gap) * factor, 2 * Milli * Milli)
        staff_reassign == staff_reassign_quantity(gap, factor, nurse_ratio)
        s1 == IF resource \in {"OP", "Sprechstunden"} /\ op_shift > 0
              THEN <<[msg |-> "OP-Programm glätten", qty |-> op_shift]>> ELSE <<>>
        s2 == IF resource \in {"Betten", "Notfall"} /\ open_beds > 0
              THEN <<[msg |-> "Betten temporär öffnen", qty |-> open_beds]>> ELSE <<>>
        s3 == IF staff_reassign > 0
              THEN <<[msg |-> "Pflege-Schichten umplanen", qty |-> staff_reassign]>>
              ELSE <<>>
        suggestions == s1 \o s2 \o s3
        base == Max(1, CeilDiv(Abs(gap) * 10, capacity))
    IN  IF status = "GRÜN" THEN [msg |-> "Keine Maßnahmen nötig"]
        ELSE IF ~shortage
        THEN [msg |-> "Überkapazität nutzen", release |-> release_quantity(gap, factor)]
        ELSE IF suggestions = <<>>
        THEN [msg |-> "Massnahmen",
              suggestions |-> <<[msg |-> "Kapazität anpassen", qty |-> base]>>]
        ELSE [msg |-> "Massnahmen", suggestions |-> suggestions]

\* the normalised gap with the divisor replaced by 1 when capacity is 0
cell_norm_gap_unit_divisor(gap, capacity) ==
    IF capacity # 0 THEN Quot(gap, capacity) ELSE Quot(gap, Milli)

\* norm_gap = gap / capacity if capacity else 0.0
cell_norm_gap(gap, capacity) ==
    IF capacity # 0 THEN Quot(gap, capacity) ELSE Zero

\* describe_cell; row has the columns resource, week, gap, capacity_sum
describe_cell(row, thresholds, nurse_ratio) ==
    LET gap == row.gap
        capacity == row.capacity_sum
        norm_gap == cell_norm_gap(gap, capacity)
        status == ampel_status(norm_gap, thresholds)
    IN  [resource |-> row.resource,
         kw |-> row.week,
         status |-> status[1],
         farbe |-> status[2],
         gap |-> gap,
         norm_gap |-> norm_gap,
         empfehlung |-> format_recommendation(row.resource, gap, capacity,
                                              nurse_ratio, thresholds)]

(***************************************************************************)
(* app.py: build_heatmap                                                   *)
(***************************************************************************)
\* position of a resource name in sorted order
ResourceRank(resource) == CHOOSE g \in 1..Len(ResourceSortOrder) : ResourceSortOrder[g] = resource

\* the keys of df.groupby(["week", "resource"]) in the order pandas puts them
\* (ascending week, then resource name); a key is <<week, ResourceRank>>
group_keys(rows) ==
    LET keys == {<<rows[i].week, ResourceRank(rows[i].resource)>> : i \in 1..Len(rows)}
    IN  [k \in 1..Cardinality(keys) |->
            CHOOSE key \in keys :
                Cardinality({o \in keys : o[1] < key[1]
                                \/ (o[1] = key[1] /\ o[2] < key[2])}) = k - 1]

\* the rows of one group, in their order in the table
group_members(rows, key) ==
    SelectSeq(rows, LAMBDA row : row.week = key[1] /\ ResourceRank(row.resource) = key[2])

\* df.groupby(["week", "resource"], as_index=False).agg(gap_sum, capacity_sum, days)
group_by_week_resource(rows) ==
    LET keys == group_keys(rows)
        Group(key) ==
            LET members == group_members(rows, key)
            IN  [week |-> key[1],
                 resource |-> ResourceSortOrder[key[2]],
                 gap_sum |-> SumSeq([i \in 1..Len(members) |-> members[i].gap]),
                 capacity_sum |-> SumSeq([i \in 1..Len(members) |-> members[i].capacity]),
                 days |-> Len(members)]
    IN  [k \in 1..Len(keys) |-> Group(keys[k])]

status_rank(status) ==
    IF status = "ROT" THEN 0
    ELSE IF status = "GELB" THEN 1
    ELSE IF status = "GRÜN" THEN 2
    ELSE IF status = "BLAU" THEN 3
    ELSE 4

\* the sort key with the normalised gap ascending
detail_key_less_ascending(a, b) ==
    \/ status_rank(a.status) < status_rank(b.status)
    \/ /\ status_rank(a.status) = status_rank(b.status)
       /\ ~QAbsGeq(a.norm_gap, b.norm_gap)

\* the sort key of a detail row compared as Python compares the tuples
\* (status_rank, -abs(norm_gap))
detail_key_less(a, b) ==
    \/ status_rank(a.status) < status_rank(b.status)
    \/ /\ status_rank(a.status) = status_rank(b.status)
       /\ ~QAbsGeq(b.norm_gap, a.norm_gap)

\* detail_rows.sort(key=...): the stable sort of the list by its sort key.
\* Element i goes to the position that counts the elements with a smaller
\* key and the earlier elements with an equal key.
sort_detail_rows(s) ==
    LET n == Len(s)
        pos == [i \in 1..n |->
                  1 + Cardinality({j \in 1..n :
                          \/ detail_key_less(s[j], s[i])
                          \/ (~detail_key_less(s[i], s[j]) /\ j < i)})]
    IN  [k \in 1..n |-> s[CHOOSE i \in 1..n : pos[i] = k]]

\* build_heatmap: the norm_gap column of `grouped` (the heatmap's values) and
\* the sorted detail rows
build_heatmap(rows, thresholds, nurse_ratio) ==
    LET grouped == group_by_week_resource(rows)
        norm_gap == [k \in 1..Len(grouped) |->
                        IF grouped[k].capacity_sum # 0
                        THEN Quot(grouped[k].gap_sum, grouped[k].capacity_sum)
                        ELSE Zero]
        cell_details == [k \in 1..Len(grouped) |->
                            describe_cell([resource |-> grouped[k].resource,
                                           week |-> grouped[k].week,
                                           gap |-> grouped[k].gap_sum,
                                           capacity_sum |-> grouped[k].capacity_sum,
                                           days |-> grouped[k].days,
                                           norm_gap |-> norm_gap[k]],
                                          thresholds, nurse_ratio)]
    IN  [grouped |-> grouped,
         norm_gap |-> norm_gap,
         detail_rows |-> sort_detail_rows(cell_details)]

(***************************************************************************)
(* kpis.py: compute_kpis                                                   *)
(***************************************************************************)
\* mean of a sequence of numbers; NaN for the empty sequence
Mean(s) == IF Len(s) = 0 THEN NaN ELSE <<SumSeq(s) \div Len(s)>>

\* np.interp(x, xp, fp): piecewise linear, constant outside xp
interp(x, xp, fp) ==
    IF x <= xp[1] THEN fp[1]
    ELSE IF x >= xp[Len(xp)] THEN fp[Len(fp)]
    ELSE LET k == CHOOSE k \in 1..(Len(xp) - 1) : xp[k] <= x /\ x < xp[k + 1]
         IN  fp[k] + ((fp[k + 1] - fp[k]) * (x - xp[k])) \div (xp[k + 1] - xp[k])

\* past.groupby(["week", "resource"])[["actuals", "forecast"]].sum()
past_weekly_of(past) ==
    LET keys == group_keys(past)
        Group(key) ==
            LET members == group_members(past, key)
            IN  [week |-> key[1],
                 resource |-> ResourceSortOrder[key[2]],
                 actuals |-> SumSeq([i \in 1..Len(members) |-> members[i].actuals]),
                 forecast |-> SumSeq([i \in 1..Len(members) |-> members[i].forecast])]
    IN  [k \in 1..Len(keys) |-> Group(keys[k])]

\* the rows of the as-of date's ISO week that carry an observed actual
observed_week_rows(rows, today) ==
    LET current_week == IsoWeek(today)
        week_data == SelectSeq(rows, LAMBDA row : row.week = current_week)
    IN  SelectSeq(week_data, LAMBDA row : row.actuals_to_date # NaN)

\* utilisation = actual_sum / capacity_sum if capacity_sum else 0.0, without
\* the clamp
utilisation_unclamped(actual_sum, capacity_sum) ==
    IF capacity_sum # 0 THEN Div(actual_sum, capacity_sum) ELSE 0

\* utilisation = min(1.0, actual_sum / capacity_sum if capacity_sum else 0.0)
utilisation_of(actual_sum, capacity_sum) ==
    Min(Milli, IF capacity_sum # 0 THEN Div(actual_sum, capacity_sum) ELSE 0)

\* the whole table in place of its first n rows
head_whole(rows, n) == rows

\* df.head(n): the first n rows, all of them if there are fewer
head(rows, n) == SubSeq(rows, 1, Min(n, Len(rows)))

\* compute_kpis(df, today, thresholds)
compute_kpis(rows, today, thresholds) ==
    LET is_past == SelectSeq(rows, LAMBDA row : DateLeq(row.date, today))
        past == IF Len(is_past) = 0 THEN head(rows, 7) ELSE is_past
        observed == observed_week_rows(rows, today)
        actual_sum == SumSeq([i \in 1..Len(observed) |-> observed[i].actuals_to_date[1]])
        capacity_sum == SumSeq([i \in 1..Len(observed) |-> observed[i].capacity])
        utilisation == utilisation_of(actual_sum, capacity_sum)
        past_weekly == past_weekly_of(past)
        ape(g) == IF g.actuals = 0 THEN 0 ELSE Div(Abs(g.actuals - g.forecast), g.actuals)
        mape == IF Len(past_weekly) = 0 THEN 0
                ELSE SumSeq([k \in 1..Len(past_weekly) |-> ape(past_weekly[k])])
                     \div Len(past_weekly)
        waiting_days == SumSeq([i \in 1..Len(past) |-> Max(past[i].gap, 0)])
        cancellation_rate ==
            Mean([i \in 1..Len(past) |-> 5 + Mul(50, Max(past[i].norm_gap, 0))])
        nurse_pressure == SelectSeq(past, LAMBDA row : row.resource = "Personal")
        engpass_score ==
            IF Len(nurse_pressure) = 0 THEN 0
            ELSE interp(Mean([i \in 1..Len(nurse_pressure) |-> nurse_pressure[i].norm_gap])[1],
                        <<-100, 0, 300, 600>>,
                        <<10 * Milli, 30 * Milli, 70 * Milli, 95 * Milli>>)
    IN  [Auslastung |-> utilisation * 100,
         MAPE |-> mape * 100,
         Wartetage |-> waiting_days,
         Stornoquote |-> IF cancellation_rate = NaN THEN NaN
                         ELSE <<cancellation_rate[1] * 100>>,
         Pflege_Engpass |-> engpass_score]

(***************************************************************************)
(* Calls of the logic functions with arguments from bounded sets           *)
(***************************************************************************)
AmpelThresholds(gruen, gelb) == [gruen |-> gruen, gelb |-> gelb]

DefaultThresholds == AmpelThresholds(50, 150)

\* the defaults, another ordered pair, two pairs with green > yellow > 0,
\* green < 0, yellow < 0
ThresholdValues ==
    {DefaultThresholds, AmpelThresholds(10, 300), AmpelThresholds(100, 50),
     AmpelThresholds(300, 10), AmpelThresholds(-300, 150), AmpelThresholds(50, -100)}

NormGapValues ==
    {-400, -300, -200, -150, -149, -100, -80, -51, -50, -49, -10, -9, 0,
     9, 10, 49, 50, 51, 99, 100, 149, 150, 200, 300, 400}

GapValues == {-20000, -8000, -3000, -1, 0, 1, 3000, 8000, 20000}
CapacityValues == {0, 500, 100000}
NurseRatioValues == {-2000, 0, 5000, 500000}
ResourceValues == {"Betten", "OP", "Personal"}

AmpelCalls ==
    {[fn |-> "ampel_status", norm_gap |-> Quot(x, Milli), thresholds |-> th] :
        x \in NormGapValues, th \in ThresholdValues}

RecommendationCalls ==
    {[fn |-> "format_recommendation", resource |-> r, gap |-> g, capacity |-> c,
      nurse_ratio |-> nr, thresholds |-> th] :
        r \in ResourceValues, g \in GapValues, c \in CapacityValues,
        nr \in NurseRatioValues, th \in ThresholdValues}

DescribeCalls ==
    {[fn |-> "describe_cell",
      row |-> [resource |-> r, week |-> 7, gap |-> g, capacity_sum |-> c],
      nurse_ratio |-> 5000, thresholds |-> th] :
        r \in ResourceValues, g \in GapValues, c \in CapacityValues \cup {-100000},
        th \in ThresholdValues}

InitLogic ==
    /\ call \in AmpelCalls \cup RecommendationCalls \cup DescribeCalls
    /\ ret = NoCall
    /\ config = DefaultConfig
    /\ clock = 1
    /\ df = <<>>
    /\ todays_date = NoDate
    /\ prev_df = <<>>
    /\ prev_today = NoDate
    /\ runs = 0

session_vars == <<config, clock, df, todays_date, prev_df, prev_today, runs>>

AmpelStatus ==
    /\ call.fn = "ampel_status" /\ ret = NoCall
    /\ ret' = [fn |-> call.fn, value |-> ampel_status(call.norm_gap, call.thresholds)]
    /\ UNCHANGED <<call, session_vars>>

FormatRecommendation ==
    /\ call.fn = "format_recommendation" /\ ret = NoCall
    /\ ret' = [fn |-> call.fn,
               value |-> format_recommendation(call.resource, call.gap, call.capacity,
                                               call.nurse_ratio, call.thresholds)]
    /\ UNCHANGED <<call, session_vars>>

DescribeCell ==
    /\ call.fn = "describe_cell" /\ ret = NoCall
    /\ ret' = [fn |-> call.fn,
               value |-> describe_cell(call.row, call.thresholds, call.nurse_ratio)]
    /\ UNCHANGED <<call, session_vars>>

NextLogic == AmpelStatus \/ FormatRecommendation \/ DescribeCell

SpecLogic == InitLogic /\ [][NextLogic]_vars

(***************************************************************************)
(* Calls of build_heatmap and compute_kpis on small tables                 *)
(***************************************************************************)
MaxRows == 3

\* the as-of date the small tables were simulated with
TableToday == MkDate(2023, 1, 3)

\* a row with the columns the dashboard reads, the derived ones computed as
\* simulate_year computes them
TableRow(date, resource, capacity, forecast, actuals) ==
    [date |-> date,
     resource |-> resource,
     week |-> IsoWeek(date),
     capacity |-> capacity,
     forecast |-> forecast,
     actuals |-> actuals,
     gap |-> forecast - capacity,
     norm_gap |-> norm_gap_of(forecast - capacity, capacity),
     actuals_to_date |-> IF DateLeq(date, TableToday) THEN <<actuals>> ELSE NaN]

TableRows ==
    {TableRow(d, r, v[1], v[2], v[3]) :
        d \in {MkDate(2023, 1, 1), MkDate(2023, 1, 2), MkDate(2023, 1, 3),
               MkDate(2023, 1, 9)},
        r \in {"Betten", "Personal"},
        v \in {<<10000, 13000, 14000>>, <<10000, 9200, 6000>>, <<0, 2000, 2000>>}}

\* a table is in the row order simulate_year returns: one row per
\* (resource, date), ascending by resource and then by date
RowBefore(a, b) ==
    \/ ResourceRank(a.resource) < ResourceRank(b.resource)
    \/ /\ a.resource = b.resource
       /\ ToOrdinal(a.date) < ToOrdinal(b.date)

SmallTables ==
    UNION {{t \in [1..n -> TableRows] : \A i \in 1..(n - 1) : RowBefore(t[i], t[i + 1])}
           : n \in 1..MaxRows}

\* the tables with a row for each of the four dates and both resources
\* (eight rows, four of "Betten" followed by four of "Personal")
GridTables ==
    LET days == <<MkDate(2023, 1, 1), MkDate(2023, 1, 2), MkDate(2023, 1, 3),
                  MkDate(2023, 1, 9)>>
        values == <<<<10000, 13000, 14000>>, <<10000, 9200, 6000>>>>
    IN  {[k \in 1..8 |->
            TableRow(days[((k - 1) % 4) + 1],
                     IF k <= 4 THEN "Betten" ELSE "Personal",
                     values[pick[k]][1], values[pick[k]][2], values[pick[k]][3])] :
         pick \in [1..8 -> 1..2]}

\* the tables with the first nine days of the year for "Betten", the rows
\* simulate_year puts first
LongTables ==
    LET values == <<<<10000, 13000, 14000>>, <<10000, 9200, 6000>>>>
    IN  {[k \in 1..9 |->
            TableRow(MkDate(2023, 1, k), "Betten",
                     values[pick[k]][1], values[pick[k]][2], values[pick[k]][3])] :
         pick \in [1..9 -> 1..2]}

Tables == SmallTables \cup GridTables \cup LongTables

BoardCalls ==
    {[fn |-> "build_heatmap", thresholds |-> th, nurse_ratio |-> 5000] :
        th \in {DefaultThresholds, AmpelThresholds(100, 50), AmpelThresholds(50, -100)}}
    \cup
    {[fn |-> "compute_kpis", today |-> t, thresholds |-> DefaultThresholds] :
        t \in {MkDate(2022, 12, 30), MkDate(2023, 1, 3), MkDate(2023, 1, 10)}}

InitBoard ==
    /\ df \in Tables
    /\ call \in BoardCalls
    /\ ret = NoCall
    /\ config = DefaultConfig
    /\ clock = 1
    /\ todays_date = TableToday
    /\ prev_df = <<>>
    /\ prev_today = NoDate
    /\ runs = 0

BuildHeatmap ==
    /\ call.fn = "build_heatmap" /\ ret = NoCall
    /\ ret' = [fn |-> call.fn,
               value |-> build_heatmap(df, call.thresholds, call.nurse_ratio)]
    /\ UNCHANGED <<call, session_vars>>

ComputeKpis ==
    /\ call.fn = "compute_kpis" /\ ret = NoCall
    /\ ret' = [fn |-> call.fn,
               value |-> compute_kpis(df, call.today, call.thresholds)]
    /\ UNCHANGED <<call, session_vars>>

NextBoard == BuildHeatmap \/ ComputeKpis

SpecBoard == InitBoard /\ [][NextBoard]_vars

(***************************************************************************)
(* Properties of the logic functions (SpecLogic)                           *)
(***************************************************************************)
Returned(fn) == ret # NoCall /\ ret.fn = fn

\* the normalised gap of an ampel_status call, in thousandths
CallNormGap == call.norm_gap.num

\* C2: for 0 < green < yellow, ampel_status returns RED iff |norm_gap| >= yellow,
\* YELLOW iff green <= norm_gap < yellow, BLUE iff -yellow < norm_gap <= -green,
\* GREEN iff -green < norm_gap < green; with green = 0.05, yellow = 0.15:
\* 0.20 -> RED, 0.10 -> YELLOW, 0.0 -> GREEN, -0.08 -> BLUE, -0.20 -> RED.
C2_Partition ==
    (Returned("ampel_status")
     /\ 0 < call.thresholds.gruen /\ call.thresholds.gruen < call.thresholds.gelb)
    => LET x == CallNormGap
           green == call.thresholds.gruen
           yellow == call.thresholds.gelb
           label == ret.value[1]
       IN  /\ label \in {"ROT", "GELB", "BLAU", "GRÜN"}
           /\ label = "ROT" <=> Abs(x) >= yellow
           /\ label = "GELB" <=> (green <= x /\ x < yellow)
           /\ label = "BLAU" <=> (-yellow < x /\ x <= -green)
           /\ label = "GRÜN" <=> (-green < x /\ x < green)
           /\ ret.value[2] = AMPel_COLORS[label]
           /\ (green = 50 /\ yellow = 150) =>
                 /\ x = 200 => label = "ROT"
                 /\ x = 100 => label = "GELB"
                 /\ x = 0 => label = "GRÜN"
                 /\ x = -80 => label = "BLAU"
                 /\ x = -200 => label = "ROT"

\* the call ampel_status(0.20, (0.05, 0.15)) has returned RED: the first
\* branch wins over the second, which 0.20 satisfies too
C2_Witness ==
    /\ Returned("ampel_status")
    /\ call.thresholds = DefaultThresholds /\ CallNormGap = 200
    /\ ret.value[1] = "ROT"

\* the status format_recommendation derives for its arguments
CallStatus == ampel_status(Quot(call.gap, call.capacity), call.thresholds)[1]

SurplusCall ==
    /\ Returned("format_recommendation")
    /\ call.gap <= 0 /\ call.capacity > 0
    /\ CallStatus # "GRÜN"

BettenExample ==
    /\ Returned("format_recommendation")
    /\ call.resource = "Betten" /\ call.gap = -20000 /\ call.capacity = 100000
    /\ call.thresholds = DefaultThresholds

\* the release rule of C3: ceil(|gap| * factor / 2), factor 0.35 for YELLOW,
\* 1.0 otherwise
ReleaseRule ==
    SurplusCall =>
        /\ ret.value.msg = "Überkapazität nutzen"
        /\ 2 * Milli * Milli * ret.value.release
              >= Abs(call.gap) * (IF CallStatus = "GELB" THEN 350 ELSE Milli)
        /\ 2 * Milli * Milli * (ret.value.release - 1)
              < Abs(call.gap) * (IF CallStatus = "GELB" THEN 350 ELSE Milli)

\* C3 as stated: the release rule, and 4 slots for Betten, gap -20,
\* capacity 100
C3_Original == ReleaseRule /\ (BettenExample => ret.value.release = 4)

\* C3 amended: the release rule; for Betten, gap -20, capacity 100 and the
\* default thresholds the status is RED, the factor 1.0 and the release
\* quantity ceil(20 * 1.0 / 2) = 10
C3_Release ==
    /\ ReleaseRule
    /\ BettenExample => (CallStatus = "ROT" /\ ret.value.release = 10)

\* a surplus cell that is YELLOW (green <= norm_gap < yellow with a negative
\* green threshold) and gets ceil(20 * 0.35 / 2) = 4
C3_Witness ==
    /\ SurplusCall /\ CallStatus = "GELB"
    /\ call.gap = -20000 /\ call.capacity = 100000
    /\ ret.value.release = 4

(***************************************************************************)
(* Properties of build_heatmap and compute_kpis (SpecBoard)                *)
(***************************************************************************)
\* the (resource, week) cells of the table
Cells == {<<df[i].resource, df[i].week>> : i \in 1..Len(df)}

CellRows(cell) == {i \in 1..Len(df) : df[i].resource = cell[1] /\ df[i].week = cell[2]}

RECURSIVE SetSum(_, _)
\* sum of column col over the rows with index in S
SetSum(S, col) ==
    IF S = {} THEN 0
    ELSE LET i == CHOOSE j \in S : TRUE IN df[i][col] + SetSum(S \ {i}, col)

\* the detail rows returned for a cell
DetailsOf(cell) ==
    {k \in 1..Len(ret.value.detail_rows) :
        /\ ret.value.detail_rows[k].resource = cell[1]
        /\ ret.value.detail_rows[k].kw = cell[2]}

\* what C5 says of the cells whose summed capacity is 0
ZeroCapacityCells ==
    \A cell \in Cells :
        SetSum(CellRows(cell), "capacity") = 0 =>
            /\ \A k \in 1..Len(ret.value.grouped) :
                  (ret.value.grouped[k].resource = cell[1]
                   /\ ret.value.grouped[k].week = cell[2])
                      => ret.value.norm_gap[k].num = 0
            /\ DetailsOf(cell) # {}
            /\ \A k \in DetailsOf(cell) :
                  /\ ret.value.detail_rows[k].norm_gap.num = 0
                  /\ ret.value.detail_rows[k].status = "GRÜN"
                  /\ ret.value.detail_rows[k].empfehlung = [msg |-> "Kapazität unbekannt"]

\* C5 as stated: for thresholds with green > 0, a cell with capacity_sum = 0
\* gets norm_gap = 0, status GREEN and the manual-review message
C5_Original ==
    (Returned("build_heatmap") /\ call.thresholds.gruen > 0) => ZeroCapacityCells

\* C5 amended: the same for thresholds with green > 0 and yellow > 0
C5_ZeroCapacity ==
    (Returned("build_heatmap") /\ call.thresholds.gruen > 0 /\ call.thresholds.gelb > 0)
        => ZeroCapacityCells

\* a cell with capacity_sum = 0 and gap_sum # 0
C5_Witness ==
    /\ Returned("build_heatmap")
    /\ call.thresholds = DefaultThresholds
    /\ \E cell \in Cells :
          /\ SetSum(CellRows(cell), "capacity") = 0
          /\ SetSum(CellRows(cell), "gap") > 0
          /\ Cardinality(CellRows(cell)) >= 2

ObservedWeekRows ==
    {i \in 1..Len(df) : df[i].week = IsoWeek(call.today) /\ df[i].actuals_to_date # NaN}

RECURSIVE ObservedActuals(_)
ObservedActuals(S) ==
    IF S = {} THEN 0
    ELSE LET i == CHOOSE j \in S : TRUE
         IN  df[i].actuals_to_date[1] + ObservedActuals(S \ {i})

\* C9: Auslastung never exceeds 100, and is 0 when the capacity of the
\* current week's observed rows sums to 0
C9_UtilisationClamp ==
    Returned("compute_kpis") =>
        /\ ret.value.Auslastung <= 100 * Milli
        /\ SetSum(ObservedWeekRows, "capacity") = 0 => ret.value.Auslastung = 0

\* the observed actuals of the week exceed the capacity: the clamp acts
C9_Witness ==
    /\ Returned("compute_kpis")
    /\ SetSum(ObservedWeekRows, "capacity") > 0
    /\ ObservedActuals(ObservedWeekRows) > SetSum(ObservedWeekRows, "capacity")
    /\ ret.value.Auslastung = 100 * Milli

SeverityRank(status) ==
    CASE status = "ROT" -> 0 [] status = "GELB" -> 1
      [] status = "GRÜN" -> 2 [] status = "BLAU" -> 3

\* C10: the detail rows are ordered by severity rank ascending and, within a
\* rank, by descending |norm_gap|; there is exactly one row per cell
C10_DetailOrder ==
    Returned("build_heatmap") =>
        LET rows == ret.value.detail_rows
        IN  /\ \A k \in 1..(Len(rows) - 1) :
                  \/ SeverityRank(rows[k].status) < SeverityRank(rows[k + 1].status)
                  \/ /\ SeverityRank(rows[k].status) = SeverityRank(rows[k + 1].status)
                     /\ Abs(rows[k].norm_gap.num) * rows[k + 1].norm_gap.den
                           >= Abs(rows[k + 1].norm_gap.num) * rows[k].norm_gap.den
            /\ Len(rows) = Cardinality(Cells)
            /\ \A cell \in Cells : Cardinality(DetailsOf(cell)) = 1

\* three cells; the sort has moved a later week before an earlier one within
\* one rank, and a more severe rank before a less severe one
C10_Witness ==
    /\ Returned("build_heatmap")
    /\ LET rows == ret.value.detail_rows
       IN  /\ Len(rows) = 3
           /\ rows[1].status = rows[2].status
           /\ rows[1].kw > rows[2].kw
           /\ Abs(rows[1].norm_gap.num) * rows[2].norm_gap.den
                 > Abs(rows[2].norm_gap.num) * rows[1].norm_gap.den
           /\ SeverityRank(rows[2].status) < SeverityRank(rows[3].status)


(***************************************************************************)
(* Shape of the dataset                                                    *)
(***************************************************************************)
\* the rows of the dataset for one (calendar day, resource) pair
RowsFor(day, resource) ==
    {i \in Rows : df[i].date = day /\ df[i].resource = resource}

\* the position of the row for day-of-year n of the g-th resource in the
\* order of sort_values(["resource", "date"])
RowPosition(g, n) == (g - 1) * DaysInYear(config.year) + n

\* C11: the dataset simulate_year returns holds exactly one row for every
\* (calendar day of the configured year, resource) pair of the five
\* resources, 366 * 5 rows for a leap year and 365 * 5 otherwise; the
\* assimilation pass neither drops nor duplicates a row.
C11_OneRowPerDayAndResource ==
    runs > 0 =>
        /\ Len(RESOURCES) = 5
        /\ Len(df) = (IF IsLeap(config.year) THEN 366 ELSE 365) * 5
        /\ \A g \in 1..5 : \A n \in 1..DaysInYear(config.year) :
              /\ df[RowPosition(g, n)].resource = ResourceSortOrder[g]
              /\ df[RowPosition(g, n)].date = FromYday(config.year, n)
        /\ {ResourceSortOrder[g] : g \in 1..5} = {RESOURCES[r] : r \in 1..5}
        /\ \A day \in {MkDate(config.year, 1, 1), MkDate(config.year, 2, 28),
                       MkDate(config.year, 12, 31)} :
              \A r \in 1..5 : Cardinality(RowsFor(day, RESOURCES[r])) = 1

\* a leap-year run: 1830 rows, one of them for 29 February
C11_Witness ==
    /\ runs > 0 /\ IsLeap(config.year) /\ Len(df) = 1830
    /\ Cardinality(RowsFor(MkDate(config.year, 2, 29), "Personal")) = 1

(***************************************************************************)
(* The fallback window of compute_kpis                                     *)
(***************************************************************************)
\* no row of the table is dated on or before the as-of date of the call
NoPastRow == \A i \in Rows : ToOrdinal(df[i].date) > ToOrdinal(call.today)

\* the positions of the first 7 rows of the table
FirstSeven == {i \in Rows : i <= 7}

\* the (week, resource) groups of the rows with index in S
GroupsOf(S) == {<<df[i].week, df[i].resource>> : i \in S}

GroupRows(S, g) == {i \in S : df[i].week = g[1] /\ df[i].resource = g[2]}

\* |actuals - forecast| / actuals of one group, 0 for summed actuals of 0
GroupApe(S, g) ==
    LET a == SetSum(GroupRows(S, g), "actuals")
        f == SetSum(GroupRows(S, g), "forecast")
    IN  IF a = 0 THEN 0 ELSE Div(Abs(a - f), a)

RECURSIVE ApeSum(_, _)
ApeSum(S, G) ==
    IF G = {} THEN 0
    ELSE LET g == CHOOSE x \in G : TRUE IN GroupApe(S, g) + ApeSum(S, G \ {g})

RECURSIVE PositiveSum(_, _)
\* sum over the rows with index in S of max(column col, 0)
PositiveSum(S, col) ==
    IF S = {} THEN 0
    ELSE LET i == CHOOSE j \in S : TRUE
         IN  Max(df[i][col], 0) + PositiveSum(S \ {i}, col)

RECURSIVE CancellationSum(_)
CancellationSum(S) ==
    IF S = {} THEN 0
    ELSE LET i == CHOOSE j \in S : TRUE
         IN  5 + Mul(50, Max(df[i].norm_gap, 0)) + CancellationSum(S \ {i})

PersonalIn(S) == {i \in S : df[i].resource = "Personal"}

\* C12: when no row is dated on or before the as-of date, compute_kpis
\* returns its five indicators, with MAPE, Wartetage, Stornoquote and
\* Pflege-Engpass computed over the first 7 rows of the table (all rows if
\* there are fewer), and Pflege-Engpass is 0 when these rows hold no
\* "Personal" row.
C12_FallbackWindow ==
    (Returned("compute_kpis") /\ NoPastRow) =>
        LET W == FirstSeven
        IN  /\ DOMAIN ret.value =
                   {"Auslastung", "MAPE", "Wartetage", "Stornoquote", "Pflege_Engpass"}
            /\ ret.value.MAPE
                   = (ApeSum(W, GroupsOf(W)) \div Cardinality(GroupsOf(W))) * 100
            /\ ret.value.Wartetage = PositiveSum(W, "gap")
            /\ ret.value.Stornoquote
                   = <<(CancellationSum(W) \div Cardinality(W)) * 100>>
            /\ PersonalIn(W) = {} => ret.value.Pflege_Engpass = 0
            /\ PersonalIn(W) # {} =>
                  ret.value.Pflege_Engpass
                      = interp(SetSum(PersonalIn(W), "norm_gap")
                                   \div Cardinality(PersonalIn(W)),
                               <<-100, 0, 300, 600>>,
                               <<10 * Milli, 30 * Milli, 70 * Milli, 95 * Milli>>)

\* a table of more than 7 rows, all after the as-of date, whose rows after
\* the seventh would change Wartetage, and whose first 7 rows hold no
\* "Personal" row
C12_Witness ==
    /\ Returned("compute_kpis") /\ NoPastRow
    /\ Len(df) > 7
    /\ PositiveSum(Rows, "gap") > PositiveSum(FirstSeven, "gap")
    /\ PersonalIn(FirstSeven) = {}
    /\ ret.value.Pflege_Engpass = 0
    /\ ret.value.Wartetage > 0

\* the same with "Personal" rows inside and outside the window
C12_WitnessPersonal ==
    /\ Returned("compute_kpis") /\ NoPastRow
    /\ Len(df) > 7
    /\ PersonalIn(FirstSeven) # {} /\ PersonalIn(Rows) # PersonalIn(FirstSeven)
    /\ ret.value.Pflege_Engpass > 0

(***************************************************************************)
(* The correction carried along a resource's walk                          *)
(***************************************************************************)
\* row i is the first row of its resource's walk
FirstOfWalk(i) == i = 1 \/ df[i - 1].resource # df[i].resource

\* the correction a row's forecast carries
Carried(i) == df[i].forecast - df[i].forecast_raw

\* the correction the walk enters row i with
CorrectionBefore(i) == IF FirstOfWalk(i) THEN 0 ELSE Carried(i - 1)

\* the rows of one resource's walk
WalkOf(resource) == {i \in Rows : df[i].resource = resource}

\* C13: in each resource's walk the correction starts at 0; on a firing day
\* it becomes (1 - 0.3) * correction + 0.3 * (actuals - forecast_raw), with
\* that day's forecast_raw; on a non-firing day it is unchanged; every day's
\* forecast is forecast_raw plus the correction after that day's step.  So
\* forecast = forecast_raw before the first firing, and forecast -
\* forecast_raw is one constant after the last firing.
C13_CorrectionWalk ==
    \A r \in 1..Len(RESOURCES) :
        LET walk == WalkOf(RESOURCES[r])
            firings == {j \in walk : df[j].fired}
            first == IF firings = {} THEN Len(df) + 1
                     ELSE CHOOSE j \in firings : \A k \in firings : j <= k
            last == IF firings = {} THEN 0
                    ELSE CHOOSE j \in firings : \A k \in firings : k <= j
        IN  \A i \in walk :
                /\ df[i].correction = Carried(i)
                /\ df[i].fired =>
                      Carried(i) = Mul(Milli - 300, CorrectionBefore(i))
                                   + Mul(300, df[i].actuals - df[i].forecast_raw)
                /\ ~df[i].fired => Carried(i) = CorrectionBefore(i)
                /\ i < first => df[i].forecast = df[i].forecast_raw
                /\ (i > last /\ last > 0) => Carried(i) = Carried(last)

\* a walk with two firings, the second entered with a correction other than
\* 0, a row before the first firing and a row after the last one
C13_Witness ==
    \E r \in 1..Len(RESOURCES) :
        LET walk == WalkOf(RESOURCES[r])
            firings == {j \in walk : df[j].fired}
        IN  /\ Cardinality(firings) >= 2
            /\ \E j \in firings :
                  CorrectionBefore(j) # 0 /\ Carried(j) # CorrectionBefore(j)
            /\ \E i \in walk : (\A j \in firings : i < j) /\ Carried(i) = 0
            /\ \E k \in walk : (\A j \in firings : j < k) /\ Carried(k) # 0

(***************************************************************************)
(* Calls of assimilate_forecasts on small tables in any row order          *)
(***************************************************************************)
\* a Sunday that is the 1st of a month, two further Sundays, a 1st of a month
AssimDates == {MkDate(2023, 1, 1), MkDate(2023, 1, 8), MkDate(2023, 1, 15),
               MkDate(2023, 2, 1)}

\* rows with the columns assimilate_forecasts reads; actuals above and below
\* forecast_raw
AssimRows ==
    {[date |-> d, resource |-> r, forecast_raw |-> v[1], actuals |-> v[2]] :
        d \in AssimDates, r \in {"Personal", "Betten"},
        v \in {<<10000, 13000>>, <<10000, 9000>>}}

\* tables with one row per (resource, date), in any row order
AssimTables ==
    UNION {{t \in [1..n -> AssimRows] :
               \A i, j \in 1..n :
                   i < j => (t[i].date # t[j].date \/ t[i].resource # t[j].resource)}
           : n \in 1..MaxRows}

InitAssim ==
    /\ df \in AssimTables
    /\ config \in {DefaultConfig, [DefaultConfig EXCEPT !.datenrhythmus = Str_monatlich]}
    /\ todays_date \in {MkDate(2023, 1, 10), MkDate(2023, 12, 31)}
    /\ call = [fn |-> "assimilate_forecasts"]
    /\ ret = NoCall
    /\ clock = 1
    /\ prev_df = <<>>
    /\ prev_today = NoDate
    /\ runs = 0

AssimilateForecasts ==
    /\ call.fn = "assimilate_forecasts" /\ ret = NoCall
    /\ ret' = [fn |-> call.fn,
               value |-> assimilate_forecasts(df, config, todays_date, Alpha)]
    /\ UNCHANGED <<call, session_vars>>

NextAssim == AssimilateForecasts

SpecAssim == InitAssim /\ [][NextAssim]_vars

(***************************************************************************)
(* Properties of assimilate_forecasts (SpecAssim)                          *)
(***************************************************************************)
\* the rows of the returned table
Out == ret.value

\* a date on which the rhythm of the configuration asks for an update
Boundary(dt) ==
    /\ ToOrdinal(dt) <= ToOrdinal(todays_date)
    /\ \/ Weekly /\ IsSunday(dt)
       \/ Monthly /\ dt.day = 1

\* the correction the returned row k carries
OutCarried(k) == Out[k].forecast - Out[k].forecast_raw

\* the returned rows of row k's resource with an earlier date
Earlier(k) ==
    {j \in 1..Len(Out) : /\ Out[j].resource = Out[k].resource
                         /\ ToOrdinal(Out[j].date) < ToOrdinal(Out[k].date)}

\* the correction row k's step is entered with: 0 for the earliest date of
\* the resource, else the one carried by the resource's preceding date
EnteredWith(k) ==
    IF Earlier(k) = {} THEN 0
    ELSE OutCarried(CHOOSE j \in Earlier(k) :
                        \A m \in Earlier(k) : ToOrdinal(Out[m].date) <= ToOrdinal(Out[j].date))

\* the forecast computed for (resource, date) from the rows of that
\* resource alone
AloneForecast(k) ==
    LET own == SelectSeq(df, LAMBDA row : row.resource = Out[k].resource)
        alone == assimilate_forecasts(own, config, todays_date, Alpha)
    IN  {alone[j].forecast : j \in {m \in 1..Len(alone) : alone[m].date = Out[k].date}}

\* C14: whatever the row order of the input table, the returned table holds
\* the input rows, one for one; each resource's walk starts from correction
\* 0 and goes through that resource's rows by date; the forecast on a
\* (resource, date) row is computed from that row's forecast_raw and
\* actuals and the correction of that resource's preceding date, and is the
\* forecast obtained from that resource's rows alone.
C14_PerResource ==
    Returned("assimilate_forecasts") =>
        /\ Len(Out) = Len(df)
        /\ \A i \in 1..Len(df) :
              Cardinality({k \in 1..Len(Out) :
                  /\ Out[k].resource = df[i].resource /\ Out[k].date = df[i].date
                  /\ Out[k].forecast_raw = df[i].forecast_raw
                  /\ Out[k].actuals = df[i].actuals}) = 1
        /\ \A k \in 1..Len(Out) :
              /\ OutCarried(k) =
                    IF Boundary(Out[k].date)
                    THEN Mul(700, EnteredWith(k))
                         + Mul(300, Out[k].actuals - Out[k].forecast_raw)
                    ELSE EnteredWith(k)
              /\ AloneForecast(k) = {Out[k].forecast}

\* an input table that is not in (resource, date) order, with the rows of
\* two resources interleaved, both resources updated, differently
C14_Witness ==
    /\ Returned("assimilate_forecasts")
    /\ Len(df) >= 3
    /\ df[1].resource = "Personal" /\ df[2].resource = "Betten"
    /\ df[3].resource = "Personal"
    /\ ToOrdinal(df[3].date) < ToOrdinal(df[1].date)
    /\ \E k, m \in 1..Len(Out) :
          /\ Out[k].resource = "Personal" /\ Out[m].resource = "Betten"
          /\ EnteredWith(k) # 0 /\ OutCarried(k) # EnteredWith(k)
          /\ OutCarried(m) # 0 /\ OutCarried(m) # OutCarried(k)

\* the differences actuals - forecast_raw observed at the update days of
\* row k's resource up to and including row k's date
ObservedDifferences(k) ==
    {Out[j].actuals - Out[j].forecast_raw :
        j \in {m \in 1..Len(Out) :
                  /\ Out[m].resource = Out[k].resource
                  /\ ToOrdinal(Out[m].date) <= ToOrdinal(Out[k].date)
                  /\ Boundary(Out[m].date)}}

SetMin(S) == CHOOSE x \in S : \A y \in S : x <= y
SetMax(S) == CHOOSE x \in S : \A y \in S : y <= x

\* C15: at every step of a resource's walk the correction lies between the
\* minimum and the maximum of 0 and the differences observed at the update
\* days so far, so |forecast - forecast_raw| never exceeds the largest
\* absolute difference observed so far.
C15_Stable ==
    Returned("assimilate_forecasts") =>
        \A k \in 1..Len(Out) :
            LET seen == ObservedDifferences(k) \cup {0}
            IN  /\ SetMin(seen) <= Out[k].correction
                /\ Out[k].correction <= SetMax(seen)
                /\ Out[k].correction = OutCarried(k)
                /\ Abs(OutCarried(k)) <= SetMax({Abs(d) : d \in seen})

\* a walk with three updates whose differences have both signs; the
\* correction changes sign along the walk
C15_Witness ==
    /\ Returned("assimilate_forecasts")
    /\ \E i, j, k \in 1..Len(Out) :
          /\ Out[i].resource = Out[j].resource /\ Out[j].resource = Out[k].resource
          /\ ToOrdinal(Out[i].date) < ToOrdinal(Out[j].date)
          /\ ToOrdinal(Out[j].date) < ToOrdinal(Out[k].date)
          /\ Out[i].fired /\ Out[j].fired /\ Out[k].fired
          /\ OutCarried(i) < 0 /\ OutCarried(j) > 0
          /\ OutCarried(k) > 0 /\ OutCarried(k) < OutCarried(j)

(***************************************************************************)
(* The holiday part of event_impact (Spec)                                 *)
(***************************************************************************)
\* the part of a row's event_impact that is left without the six random
\* impulses
DeterministicEventImpact(i) ==
    df[i].event_impact
    - impulse_impact(config.seed, DaysInYear(config.year), Yday(df[i].date) - 1)

\* the holidays of the configured year within 2 calendar days of a date
HolidaysNear(dt) ==
    {h \in Holidays :
        Abs(ToOrdinal(dt) - ToOrdinal(MkDate(config.year, h[1], h[2]))) <= 2}

\* C16 as stated: the deterministic part of event_impact is 0.4 for each of
\* the five holidays (Jan 1, Apr 1, Aug 1, Dec 24, Dec 31) that lies within 2
\* calendar days of the row's date, days of the neighbouring month included
C16_HolidayWindow ==
    /\ Holidays = {<<1, 1>>, <<4, 1>>, <<8, 1>>, <<12, 24>>, <<12, 31>>}
    /\ \A i \in Rows :
          DeterministicEventImpact(i) = 400 * Cardinality(HolidaysNear(df[i].date))

\* the same for the days of the holiday's own month only
C16_SameMonthDays ==
    \A i \in Rows :
        DeterministicEventImpact(i)
            = 400 * Cardinality({h \in HolidaysNear(df[i].date) : h[1] = df[i].date.month})

(***************************************************************************)
(* ampel_status with the thresholds in reverse order (SpecLogic)           *)
(***************************************************************************)
\* C17: for thresholds with green > yellow > 0, a norm_gap >= green (the
\* YELLOW condition) is also >= yellow and gets RED, a norm_gap <= -green
\* (the BLUE condition) is also <= -yellow and gets RED; ampel_status never
\* returns YELLOW or BLUE, returns RED iff |norm_gap| >= yellow and GREEN
\* otherwise.
C17_ReversedThresholds ==
    (Returned("ampel_status")
     /\ call.thresholds.gruen > call.thresholds.gelb /\ call.thresholds.gelb > 0)
    => LET x == CallNormGap
           green == call.thresholds.gruen
           yellow == call.thresholds.gelb
           label == ret.value[1]
       IN  /\ x >= green => (x >= yellow /\ label = "ROT")
           /\ x <= -green => (x <= -yellow /\ label = "ROT")
           /\ label \notin {"GELB", "BLAU"}
           /\ label = "ROT" <=> Abs(x) >= yellow
           /\ label = "GRÜN" <=> Abs(x) < yellow
           /\ ret.value[2] = AMPel_COLORS[label]

\* a call with green > yellow > 0 and a norm_gap at or below -green, which
\* satisfies the BLUE condition, has returned RED
C17_Witness ==
    /\ Returned("ampel_status")
    /\ call.thresholds = AmpelThresholds(100, 50)
    /\ CallNormGap <= -100
    /\ ret.value[1] = "ROT"

(***************************************************************************)
(* The (resource, week) cells of a year's dataset (Spec)                   *)
(***************************************************************************)
\* the rows of the dataset that fall into the cell (resource, week)
WeekCell(resource, week) ==
    {i \in Rows : df[i].resource = resource /\ df[i].week = week}

\* the dates of a set of rows are consecutive calendar days
ConsecutiveDays(S) ==
    LET days == {ToOrdinal(df[i].date) : i \in S}
    IN  \A d \in days : d = SetMin(days) \/ (d - 1) \in days

\* C18: every (resource, week) cell that build_heatmap aggregates, which is
\* also every (week, resource) group of the MAPE in compute_kpis, holds at
\* most 7 daily records, on consecutive calendar dates of one ISO week; no
\* cell holds days of January together with days of December.
C18_WeekCells ==
    runs > 0 =>
        /\ \A r \in 1..Len(RESOURCES) : \A week \in 1..53 :
              LET S == WeekCell(RESOURCES[r], week)
              IN  /\ Cardinality(S) <= 7
                  /\ ConsecutiveDays(S)
                  /\ ~\E i, j \in S : df[i].date.month = 1 /\ df[j].date.month = 12
        /\ LET grouped == group_by_week_resource(df)
           IN  \A k \in 1..Len(grouped) : grouped[k].days <= 7

(***************************************************************************)
(* The suggestions of format_recommendation for a shortage (SpecLogic)     *)
(***************************************************************************)
\* a call of format_recommendation for a shortage cell that is not GREEN
ShortageCall ==
    /\ Returned("format_recommendation")
    /\ call.gap > 0 /\ call.capacity > 0
    /\ CallStatus # "GRÜN"

\* C19: for every shortage cell (gap > 0, capacity > 0) whose status is not
\* GREEN, whatever the resource and the staffing ratio, the recommendation
\* holds the suggestion to reassign nursing shifts with a count of at least
\* 1; the generic suggestion to adjust capacity by N units is never
\* returned.
C19_StaffSuggestion ==
    ShortageCall =>
        /\ ret.value.msg = "Massnahmen"
        /\ \E k \in 1..Len(ret.value.suggestions) :
              /\ ret.value.suggestions[k].msg = "Pflege-Schichten umplanen"
              /\ ret.value.suggestions[k].qty >= 1
        /\ \A k \in 1..Len(ret.value.suggestions) :
              ret.value.suggestions[k].msg # "Kapazität anpassen"

\* the smallest shortage with the largest staffing ratio, for a resource
\* with no other suggestion: one shift
C19_Witness ==
    /\ ShortageCall
    /\ call.resource = "Personal" /\ call.gap = 1 /\ call.nurse_ratio = 500000
    /\ ret.value.suggestions = <<[msg |-> "Pflege-Schichten umplanen", qty |-> 1]>>
=============================================================================
